---- MODULE Spec2Model ----
(***************************************************************************)
(* ReadSTAC.render_mosaic_from_stac (src/model/read_stac.py): one request  *)
(* runs through format validation, band-selection resolution, mosaic       *)
(* assembly, bounds reprojection, RGB band algebra, post-processing,       *)
(* rendering, enhancement passes, world-file derivation, archive packaging *)
(* and bundle construction.  A Python dict is a function whose DOMAIN is   *)
(* the set of keys present; dict.get(k) yields <<>> (None) or <<value>>.   *)
(* Coordinates are integers in units of 1e-6 degree, so that rounding to   *)
(* five decimals is rounding to a multiple of ten.  Strings that are       *)
(* split, sorted or joined are sequences of tokens / character codes.      *)
(***************************************************************************)
EXTENDS Integers, Sequences, FiniteSets, TLC

VARIABLES params, env, pc, kwargs, image_data, assets_used, image_bounds,
          image, step, world_file, zip_file, result, error, log

vars == <<params, env, pc, kwargs, image_data, assets_used, image_bounds,
          image, step, world_file, zip_file, result, error, log>>

\* ---------------------------------------------------------------- bounds
MaxPasses == 2

MaxAssets == 2

\* ------------------------------------------------------------- constants
default_crs == "EPSG:4326"

formats == [PNG |-> "PGW", JPEG |-> "JGW"]

colormaps == {"viridis", "magma"}

\* float_precision = 5 decimals, in units of 1e-6 degree
RoundUnit == 10

\* upscaling factor of the psnr-small RDN network
Scale == 2

\* str.lower() on the format names and world-file extensions in use
Lower == [PNG |-> "png", JPEG |-> "jpeg", PGW |-> "pgw", JGW |-> "jgw"]

\* ", " as character codes
Separator == <<44, 32>>

\* ------------------------------------------------------------ dict access
None == <<>>

Has(d, k) == k \in DOMAIN d

Get(d, k) == IF k \in DOMAIN d THEN <<d[k]>> ELSE None

GetDefault(d, k, default) == IF k \in DOMAIN d THEN d[k] ELSE default

\* Python truthiness of what dict.get returned: None is falsy, and so are
\* an empty list, an empty dict and False
TruthyList(o) == Len(o) > 0 /\ Len(o[1]) > 0

TruthyDict(o) == Len(o) > 0 /\ DOMAIN o[1] # {}

TruthyBool(o) == Len(o) > 0 /\ o[1]

\* ------------------------------------------------------------ arithmetic
Abs(x) == IF x < 0 THEN -x ELSE x

\* Python round(): to the nearest multiple, ties to the even multiple
Round(x, unit) ==
    LET q == x \div unit
        r == x % unit
    IN  IF 2 * r < unit THEN q * unit
        ELSE IF 2 * r > unit THEN (q + 1) * unit
        ELSE IF q % 2 = 0 THEN q * unit ELSE (q + 1) * unit

RECURSIVE Pow(_, _)
Pow(b, n) == IF n = 0 THEN 1 ELSE b * Pow(b, n - 1)

\* floating-point values: a finite number, NaN, or a signed infinity
Num(n) == [k |-> "num", v |-> n]

NaN == [k |-> "nan", v |-> 0]

Inf(sign) == [k |-> "inf", v |-> sign]

\* the largest finite double, signed
FloatMax(sign) == [k |-> "fmax", v |-> sign]

Sign(n) == IF n < 0 THEN -1 ELSE 1

\* IEEE true division of two finite numbers (quotients in the modelled
\* pixel range are exact)
Divide(a, b) ==
    IF b = 0
    THEN IF a = 0 THEN NaN ELSE Inf(Sign(a))
    ELSE Num(Sign(a) * Sign(b) * (Abs(a) \div Abs(b)))

\* numpy.nan_to_num with default arguments
nan_to_num(x) ==
    IF x.k = "nan" THEN Num(0)
    ELSE IF x.k = "inf" THEN FloatMax(x.v)
    ELSE x

\* --------------------------------------------------------------- strings
RECURSIVE Split(_, _)
\* str.split(sep) on a token sequence
Split(s, sep) ==
    IF \A i \in 1..Len(s) : s[i] # sep THEN <<s>>
    ELSE LET i == CHOOSE j \in 1..Len(s) :
                     s[j] = sep /\ \A m \in 1..(j - 1) : s[m] # sep
         IN  <<SubSeq(s, 1, i - 1)>> \o Split(SubSeq(s, i + 1, Len(s)), sep)

RECURSIVE Strip(_)
\* str.strip() on a token sequence
Strip(s) ==
    IF s = <<>> THEN s
    ELSE IF s[1] = " " THEN Strip(Tail(s))
    ELSE IF s[Len(s)] = " " THEN Strip(SubSeq(s, 1, Len(s) - 1))
    ELSE s

RECURSIVE LexLeq(_, _)
\* str <= str: lexicographic by character code
LexLeq(a, b) ==
    IF a = <<>> THEN TRUE
    ELSE IF b = <<>> THEN FALSE
    ELSE IF a[1] < b[1] THEN TRUE
    ELSE IF a[1] > b[1] THEN FALSE
    ELSE LexLeq(Tail(a), Tail(b))

RECURSIVE Insert(_, _)
Insert(x, s) ==
    IF s = <<>> THEN <<x>>
    ELSE IF LexLeq(s[1], x) THEN <<s[1]>> \o Insert(x, Tail(s))
    ELSE <<x>> \o s

RECURSIVE sorted(_)
\* sorted() on a list of strings (stable, ascending)
sorted(s) ==
    IF s = <<>> THEN <<>>
    ELSE Insert(s[Len(s)], sorted(SubSeq(s, 1, Len(s) - 1)))

RECURSIVE Join(_, _)
\* sep.join(list)
Join(sep, s) ==
    IF s = <<>> THEN <<>>
    ELSE IF Len(s) = 1 THEN s[1]
    ELSE s[1] \o sep \o Join(sep, Tail(s))

\* [item["id"] for item in assets_used]
ItemIds(items) == [i \in 1..Len(items) |-> items[i].id]

\* the name without the sort
BundleName_unsorted(items) == Join(Separator, ItemIds(items))

\* ", ".join(sorted([item["id"] for item in assets_used]))
BundleName(items) == Join(Separator, sorted(ItemIds(items)))

\* ------------------------------------------------------ request handling
\* the format check reduced to a presence check
FormatRejected_presence(p) == ~Has(p, "image_format")

\* params.get("image_format") not in self.formats
FormatRejected(p) ==
    \/ ~Has(p, "image_format")
    \/ p["image_format"] \notin DOMAIN formats

\* __get_view_params: <<view_type, view_params>>, or None when the
\* function falls off its end
get_view_params(p) ==
    IF Has(p, "assets") THEN <<"assets", Get(p, "assets")>>
    ELSE IF Has(p, "expression") THEN <<"expression", Get(p, "expression")>>
    ELSE IF Has(p, "RGB-expression")
         THEN <<"assets", <<p["RGB-expression"].assets>>>>
    ELSE None

\* the key __get_view_params resolved: the band-selection mode whose
\* arguments go to mosaic assembly
view_mode(p) ==
    IF Has(p, "assets") THEN "assets"
    ELSE IF Has(p, "expression") THEN "expression"
    ELSE IF Has(p, "RGB-expression") THEN "RGB-expression"
    ELSE "none"

\* params.get("assets") or params.get("RGB-expression")
NaturalColour(p) ==
    \/ TruthyList(Get(p, "assets"))
    \/ TruthyDict(Get(p, "RGB-expression"))

\* range(passes + 1)
PassCount_extra(p) == GetDefault(p, "enhance_passes", 1) + 1

\* range(params.get("enhance_passes", 1)) has this many elements
PassCount(p) ==
    LET passes == GetDefault(p, "enhance_passes", 1)
    IN  IF passes > 0 THEN passes ELSE 0

\* ----------------------------------------------------------- band algebra
\* ctx[band] = image_data.data[bdx] for bdx, band in enumerate(assets);
\* a later duplicate overwrites an earlier binding
Context(names, data) ==
    [b \in {names[i] : i \in 1..Len(names)} |->
        data[CHOOSE i \in 1..Len(names) :
                 names[i] = b /\ \A j \in (i + 1)..Len(names) : names[j] # b]]

Failure(type) == [k |-> "err", v |-> type]

\* numexpr.evaluate on one stripped expression: a variable or
\* variable-operator-variable
evaluate(e, ctx) ==
    IF Len(e) = 1
    THEN IF e[1] \in DOMAIN ctx THEN ctx[e[1]] ELSE Failure("KeyError")
    ELSE IF Len(e) = 3 /\ e[2] \in {"+", "-", "*", "/"}
    THEN IF e[1] \notin DOMAIN ctx \/ e[3] \notin DOMAIN ctx
         THEN Failure("KeyError")
         ELSE LET a == ctx[e[1]].v
                  b == ctx[e[3]].v
              IN  CASE e[2] = "+" -> Num(a + b)
                    [] e[2] = "-" -> Num(a - b)
                    [] e[2] = "*" -> Num(a * b)
                    [] e[2] = "/" -> Divide(a, b)
    ELSE Failure("SyntaxError")

\* __process_rgb_expression: the new ImageData, or the exception raised
process_rgb_expression(img, p) ==
    LET names == p["RGB-expression"].assets
        expression == Split(p["RGB-expression"].expression, ",")
    IN  IF Len(names) > Len(img.data) THEN Failure("IndexError")
        ELSE LET ctx == Context(names, img.data)
                 raw == [i \in 1..Len(expression) |->
                            evaluate(Strip(expression[i]), ctx)]
             IN  IF \E i \in 1..Len(raw) : raw[i].k = "err"
                 THEN LET i == CHOOSE j \in 1..Len(raw) :
                                   raw[j].k = "err"
                                   /\ \A m \in 1..(j - 1) : raw[m].k # "err"
                      IN  raw[i]
                 ELSE [kind |-> "ImageData",
                       data |-> [i \in 1..Len(raw) |-> nan_to_num(raw[i])],
                       mask |-> img.mask,
                       bounds |-> None,
                       crs |-> None,
                       width |-> img.width,
                       height |-> img.height]

\* ------------------------------------------------------------- geography
\* rasterio.warp.transform_bounds; composites arrive in the canonical
\* reference, where the reprojection leaves the extent as it is
transform_bounds(src_crs, dst_crs, b) == b

\* __get_image_bounds: [[south, west], [north, east]]
get_image_bounds(img) ==
    LET rounded == [i \in 1..4 |-> Round(img.bounds[1][i], RoundUnit)]
        moved == transform_bounds(img.crs, default_crs, rounded)
        bounds_4326 == [i \in 1..4 |-> Round(moved[i], RoundUnit)]
    IN  <<<<bounds_4326[2], bounds_4326[1]>>,
          <<bounds_4326[4], bounds_4326[3]>>>>

\* __image_as_array: the decoded pixel array, shape (height, width, bands)
image_as_array(img) ==
    [kind |-> "array",
     shape |-> <<img.height, img.width, img.channels>>,
     of |-> img.src]

Ratio(n, d) == [num |-> n, den |-> d]

\* the world file with the array's axes exchanged
get_world_file_content_axes(b, img) ==
    LET arr == image_as_array(img)
    IN  <<Ratio(Abs(b[1][2] - b[2][2]), arr.shape[1]),
          Ratio(0, 1),
          Ratio(0, 1),
          Ratio(-Abs(b[1][1] - b[2][1]), arr.shape[2]),
          Ratio(b[1][2], 1),
          Ratio(b[2][1], 1)>>

\* __get_world_file_content: the six lines as numbers
get_world_file_content(b, img) ==
    LET arr == image_as_array(img)
    IN  <<Ratio(Abs(b[1][2] - b[2][2]), arr.shape[2]),
          Ratio(0, 1),
          Ratio(0, 1),
          Ratio(-Abs(b[1][1] - b[2][1]), arr.shape[1]),
          Ratio(b[1][2], 1),
          Ratio(b[2][1], 1)>>

\* ------------------------------------------------------------- packaging
\* the archive with the geometry written before the world file
create_zip_geoimage_reordered(img, wf, image_format, geometry, used) ==
    LET extension == Lower[image_format]
        extension_world_file == Lower[formats[image_format]]
        image_metadata == [type |-> "FeatureCollection", features |-> used]
    IN  <<[name |-> <<"image", extension>>, content |-> img],
          [name |-> <<"polygon", "geojson">>, content |-> geometry],
          [name |-> <<"image", extension_world_file>>, content |-> wf],
          [name |-> <<"image_metadata", "geojson">>,
           content |-> image_metadata]>>

\* __create_zip_geoimage: the archive as its members in writing order
create_zip_geoimage(img, wf, image_format, geometry, used) ==
    LET extension == Lower[image_format]
        extension_world_file == Lower[formats[image_format]]
        image_metadata == [type |-> "FeatureCollection", features |-> used]
    IN  <<[name |-> <<"image", extension>>, content |-> img],
          [name |-> <<"image", extension_world_file>>, content |-> wf],
          [name |-> <<"polygon", "geojson">>, content |-> geometry],
          [name |-> <<"image_metadata", "geojson">>,
           content |-> image_metadata]>>

\* the archive bundle carrying the world file as well
ZipBundle_both(img, b, zf, used) ==
    [image |-> img,
     projection_file |-> zf[2].content,
     bounds |-> b,
     zip_file |-> zf,
     name |-> BundleName(used)]

\* the dict returned when zip_file is set
ZipBundle(img, b, zf, used) ==
    [image |-> img,
     bounds |-> b,
     zip_file |-> zf,
     name |-> BundleName(used)]

\* the dict returned otherwise
PlainBundle(img, wf, b, used) ==
    [image |-> img,
     projection_file |-> wf,
     bounds |-> b,
     assets_used |-> used,
     name |-> BundleName(used)]

\* ---------------------------------------------------------- control flow
\* line 159: if params.get("RGB-expression")
AfterBounds(p) ==
    IF TruthyDict(Get(p, "RGB-expression")) THEN "rgb" ELSE "post"

\* lines 165-167: if params.get("enhance_image"), for step in range(passes);
\* n passes are done
AfterPass(p, n) ==
    IF TruthyBool(Get(p, "enhance_image")) /\ n < PassCount(p)
    THEN "enhance" ELSE "world"

\* line 181: if params.get("image_as_array")
AfterZip(p) ==
    IF TruthyBool(Get(p, "image_as_array")) THEN "array" ELSE "return"

\* line 172: if params.get("zip_file")
AfterWorld(p) ==
    IF TruthyBool(Get(p, "zip_file")) THEN "zip" ELSE AfterZip(p)

\* ---------------------------------------------------------------- inputs
Item(id) == [id |-> id, type |-> "Feature"]

\* identifiers "a", "ab", "b"
Ids == {<<97>>, <<97, 98>>, <<98>>}

RECURSIVE SeqsUpTo(_, _)
SeqsUpTo(S, n) ==
    IF n = 0 THEN {<<>>}
    ELSE LET shorter == SeqsUpTo(S, n - 1)
         IN  shorter \cup {Append(q, x) : q \in shorter, x \in S}

\* what mosaic assembly reports as used: at least one item
UsedLists == {[i \in 1..Len(q) |-> Item(q[i])] :
                 q \in SeqsUpTo(Ids, MaxAssets) \ {<<>>}}

BaseUsed == <<Item(<<98>>), Item(<<97>>)>>

\* native extent (left, bottom, right, top) with the composite's pixel
\* width and height: an ordinary extent, one whose west exceeds its east,
\* and one that rounds to a zero-width extent
GeoCases == {[bounds |-> <<14, -23, 26, 8>>, width |-> 2, height |-> 1],
             [bounds |-> <<35, 0, -15, 20>>, width |-> 1, height |-> 3],
             [bounds |-> <<12, 4, 13, 5>>, width |-> 1, height |-> 1]}

\* one pixel per band
PixelCases == [1..2 -> {0, 1}]

BasePixels == <<1, 0>>

Environment(pix, used, geo) ==
    [pix |-> pix, used |-> used, bounds |-> geo.bounds,
     width |-> geo.width, height |-> geo.height,
     crs |-> default_crs, mask |-> "mask"]

Opt(S) == {None} \cup {<<v>> : v \in S}

With(d, k, o) == IF Len(o) = 0 THEN d ELSE d @@ (k :> o[1])

RGB(assets, expression) == [assets |-> assets, expression |-> expression]

\* "A+B, A-B ,A/B"
ThreeBands == RGB(<<"A", "B">>,
                  <<"A", "+", "B", ",", " ", "A", "-", "B", " ", ",",
                    "A", "/", "B">>)

\* "A/B,B"
TwoBands == RGB(<<"A", "B">>, <<"A", "/", "B", ",", "B">>)

\* "A,C,B"
UnknownBand == RGB(<<"A", "B">>, <<"A", ",", "C", ",", "B">>)

FormatChoices == Opt({"PNG", "JPEG", "GIF"})

AssetsChoices == Opt({<<>>, <<"A", "B">>})

ExpressionChoices == Opt({<<"A", "/", "B">>})

RGBChoices == Opt({ThreeBands, TwoBands, UnknownBand})

\* <<enhance_image, enhance_passes>>
EnhanceChoices ==
    {<<None, None>>, <<<<FALSE>>, <<MaxPasses>>>>}
        \cup {<<<<TRUE>>, n>> : n \in Opt(0..MaxPasses)}

\* <<colormap, min_value, max_value, color_formula>>
LookChoices == {<<None, None, None, None>>,
                <<<<"bogus">>, None, None, None>>,
                <<<<"magma">>, <<0>>, <<3000>>, <<"gamma rgb 1.5">>>>}

Request(fmt, assets, expression, rgb, enhance, zip, array, look) ==
    LET d0 == ("feature_geojson" :> "roi") @@ ("stac_list" :> <<"s1", "s2">>)
        d1 == With(d0, "image_format", fmt)
        d2 == With(d1, "assets", assets)
        d3 == With(d2, "expression", expression)
        d4 == With(d3, "RGB-expression", rgb)
        d5 == With(d4, "enhance_image", enhance[1])
        d6 == With(d5, "enhance_passes", enhance[2])
        d7 == With(d6, "zip_file", zip)
        d8 == With(d7, "image_as_array", array)
        d9 == With(d8, "colormap", look[1])
        d10 == With(d9, "min_value", look[2])
        d11 == With(d10, "max_value", look[3])
    IN  With(d11, "color_formula", look[4])

AllRequests ==
    {Request(fmt, assets, expression, rgb, enhance, zip, array, look) :
        fmt \in FormatChoices, assets \in AssetsChoices,
        expression \in ExpressionChoices, rgb \in RGBChoices,
        enhance \in EnhanceChoices, zip \in Opt({TRUE}),
        array \in Opt({TRUE}), look \in LookChoices}

\* requests of each band-selection mode run against every environment
BaseRequests ==
    {Request(<<"PNG">>, assets, expression, rgb, enhance, zip, None,
             <<None, None, None, None>>) :
        assets \in Opt({<<"A", "B">>}), expression \in ExpressionChoices,
        rgb \in RGBChoices, enhance \in {<<None, None>>, <<<<TRUE>>, None>>},
        zip \in Opt({TRUE})}

AllEnvironments ==
    {Environment(pix, used, geo) :
        pix \in PixelCases, used \in UsedLists, geo \in GeoCases}

BaseEnvironments ==
    {Environment(BasePixels, BaseUsed, geo) : geo \in GeoCases}

\* ----------------------------------------------------------- state machine
Init ==
    /\ \/ params \in AllRequests /\ env \in BaseEnvironments
       \/ params \in BaseRequests /\ env \in AllEnvironments
    /\ pc = "start"
    /\ kwargs = None
    /\ image_data = None
    /\ assets_used = None
    /\ image_bounds = None
    /\ image = None
    /\ step = 0
    /\ world_file = None
    /\ zip_file = None
    /\ result = None
    /\ error = None
    /\ log = <<>>

\* an exception that is caught and dropped, the call returning nothing
Raise_swallowed(type, stage) ==
    /\ pc' = "done"
    /\ error' = <<[type |-> type, stage |-> stage]>>

\* an exception leaves render_mosaic_from_stac
Raise(type, stage) ==
    /\ pc' = "failed"
    /\ error' = <<[type |-> type, stage |-> stage]>>

\* lines 145-146
Validate ==
    /\ pc = "start"
    /\ log' = Append(log, "validate")
    /\ IF FormatRejected(params)
       THEN Raise("ValueError", "validate")
       ELSE pc' = "view" /\ UNCHANGED error
    /\ UNCHANGED <<params, env, kwargs, image_data, assets_used,
                   image_bounds, image, step, world_file, zip_file, result>>

\* lines 147-154: unpacking None raises TypeError
ViewParams ==
    /\ pc = "view"
    /\ log' = Append(log, "view")
    /\ LET view == get_view_params(params)
       IN  IF view = None
           THEN Raise("TypeError", "view") /\ UNCHANGED kwargs
           ELSE /\ kwargs' = <<[view_type |-> view[1],
                                view_params |-> view[2],
                                max_size |-> Get(params, "max_size"),
                                nodata |-> Get(params, "nodata"),
                                asset_as_band |-> TRUE]>>
                /\ pc' = "mosaic"
                /\ UNCHANGED error
    /\ UNCHANGED <<params, env, image_data, assets_used, image_bounds,
                   image, step, world_file, zip_file, result>>

\* the composite mosaic_reader assembles: one band per selected asset, one
\* band for an expression
Composite(kw, e) ==
    LET bands == IF kw.view_type = "assets" THEN Len(kw.view_params[1]) ELSE 1
    IN  [kind |-> "ImageData",
         data |-> [i \in 1..bands |-> Num(e.pix[((i - 1) % Len(e.pix)) + 1])],
         mask |-> e.mask,
         bounds |-> <<e.bounds>>,
         crs |-> <<e.crs>>,
         width |-> e.width,
         height |-> e.height]

\* lines 155-156: mosaic_reader returns the composite and the items used
Mosaic ==
    /\ pc = "mosaic"
    /\ TruthyList(kwargs[1].view_params)
    /\ log' = Append(log, "mosaic")
    /\ image_data' = <<Composite(kwargs[1], env)>>
    /\ assets_used' = <<env.used>>
    /\ pc' = "bounds"
    /\ UNCHANGED <<params, env, kwargs, image_bounds, image, step,
                   world_file, zip_file, result, error>>

\* lines 155-156: mosaic_reader raises (no selector, no coverage, or
\* every source failed)
MosaicFail ==
    /\ pc = "mosaic"
    /\ log' = Append(log, "mosaic")
    /\ Raise(IF TruthyList(kwargs[1].view_params)
             THEN "EmptyMosaicError" ELSE "MissingAssets", "mosaic")
    /\ UNCHANGED <<params, env, kwargs, image_data, assets_used,
                   image_bounds, image, step, world_file, zip_file, result>>

\* line 157
Bounds ==
    /\ pc = "bounds"
    /\ log' = Append(log, "bounds")
    /\ IF image_data[1].bounds = None
       THEN Raise("TypeError", "bounds") /\ UNCHANGED image_bounds
       ELSE /\ image_bounds' = <<get_image_bounds(image_data[1])>>
            /\ pc' = AfterBounds(params)
            /\ UNCHANGED error
    /\ UNCHANGED <<params, env, kwargs, image_data, assets_used, image,
                   step, world_file, zip_file, result>>

\* lines 159-160
Evaluate ==
    /\ pc = "rgb"
    /\ log' = Append(log, "rgb")
    /\ LET out == process_rgb_expression(image_data[1], params)
       IN  IF "k" \in DOMAIN out
           THEN Raise(out.v, "rgb") /\ UNCHANGED image_data
           ELSE /\ image_data' = <<out>>
                /\ pc' = "post"
                /\ UNCHANGED error
    /\ UNCHANGED <<params, env, kwargs, assets_used, image_bounds, image,
                   step, world_file, zip_file, result>>

\* __post_process_image: the arguments handed to ImageData.post_process
post_process_image(img, p) ==
    IF NaturalColour(p)
    THEN [img EXCEPT !.kind = "processed"] @@
         [branch |-> "natural",
          in_range |-> <<Get(p, "min_value"), Get(p, "max_value")>>,
          color_formula |-> Get(p, "color_formula")]
    ELSE [img EXCEPT !.kind = "processed"] @@
         [branch |-> "single",
          in_range |-> <<<<GetDefault(p, "min_value", -1)>>,
                         <<GetDefault(p, "max_value", 1)>>>>,
          color_formula |-> None]

\* line 162
PostProcess ==
    /\ pc = "post"
    /\ log' = Append(log, "post")
    /\ image' = <<post_process_image(image_data[1], params)>>
    /\ pc' = "render"
    /\ UNCHANGED <<params, env, kwargs, image_data, assets_used,
                   image_bounds, step, world_file, zip_file, result, error>>

\* line 162: ImageData.post_process raises
PostProcessFail ==
    /\ pc = "post"
    /\ log' = Append(log, "post")
    /\ Raise("RescaleError", "post")
    /\ UNCHANGED <<params, env, kwargs, image_data, assets_used,
                   image_bounds, image, step, world_file, zip_file, result>>

\* the bytes ImageData.render encodes: PNG carries the mask as an alpha
\* channel, JPEG does not; a colormap turns one band into three
Encoded(img, format, colormap) ==
    LET colour == IF colormap = None THEN Len(img.data) ELSE 3
    IN  [kind |-> "bytes",
         format |-> format,
         width |-> img.width,
         height |-> img.height,
         channels |-> IF format = "PNG" THEN colour + 1 ELSE colour,
         colormap |-> colormap,
         src |-> <<"render">>]

\* __render_image: the encoded image, or the colormap lookup's exception
render_image(img, p) ==
    IF NaturalColour(p)
    THEN Encoded(img, p["image_format"], None)
    ELSE LET input_colormap == GetDefault(p, "colormap", "viridis")
         IN  IF input_colormap \notin colormaps
             THEN Failure("InvalidColorMapName")
             ELSE Encoded(img, p["image_format"], <<input_colormap>>)

\* line 163
Render ==
    /\ pc = "render"
    /\ log' = Append(log, "render")
    /\ LET out == render_image(image[1], params)
       IN  IF "k" \in DOMAIN out
           THEN Raise(out.v, "render") /\ UNCHANGED image
           ELSE /\ image' = <<out>>
                /\ pc' = AfterPass(params, 0)
                /\ UNCHANGED error
    /\ UNCHANGED <<params, env, kwargs, image_data, assets_used,
                   image_bounds, step, world_file, zip_file, result>>

\* __enhance_image: the alpha channel is index 3 of the decoded array; the
\* network upscales the colour channels; the four channels are re-encoded
enhance_image(img, p) ==
    LET format == GetDefault(p, "image_format", "PNG")
    IN  IF image_as_array(img).shape[3] < 4 THEN Failure("IndexError")
        ELSE IF format # "PNG" THEN Failure("OSError")
        ELSE [kind |-> "bytes",
              format |-> format,
              width |-> img.width * Scale,
              height |-> img.height * Scale,
              channels |-> 4,
              colormap |-> img.colormap,
              src |-> Append(img.src, "enhance")]

\* line 168: one pass of the loop
Enhance ==
    /\ pc = "enhance"
    /\ log' = Append(log, "enhance")
    /\ LET out == enhance_image(image[1], params)
       IN  IF "k" \in DOMAIN out
           THEN Raise(out.v, "enhance") /\ UNCHANGED <<image, step>>
           ELSE /\ image' = <<out>>
                /\ step' = step + 1
                /\ pc' = AfterPass(params, step + 1)
                /\ UNCHANGED error
    /\ UNCHANGED <<params, env, kwargs, image_data, assets_used,
                   image_bounds, world_file, zip_file, result>>

\* line 170
WorldFile ==
    /\ pc = "world"
    /\ log' = Append(log, "world")
    /\ world_file' = <<get_world_file_content(image_bounds[1], image[1])>>
    /\ pc' = AfterWorld(params)
    /\ UNCHANGED <<params, env, kwargs, image_data, assets_used,
                   image_bounds, image, step, zip_file, result, error>>

\* lines 172-179
Zip ==
    /\ pc = "zip"
    /\ log' = Append(log, "zip")
    /\ zip_file' = <<create_zip_geoimage(image[1], world_file[1],
                                         params["image_format"],
                                         params["feature_geojson"],
                                         assets_used[1])>>
    /\ pc' = AfterZip(params)
    /\ UNCHANGED <<params, env, kwargs, image_data, assets_used,
                   image_bounds, image, step, world_file, result, error>>

\* lines 181-182
AsArray ==
    /\ pc = "array"
    /\ log' = Append(log, "array")
    /\ image' = <<image_as_array(image[1])>>
    /\ pc' = "return"
    /\ UNCHANGED <<params, env, kwargs, image_data, assets_used,
                   image_bounds, step, world_file, zip_file, result, error>>

\* lines 184-198: the dict render_mosaic_from_stac returns
Bundle(p, img, b, wf, zf, used) ==
    IF TruthyBool(Get(p, "zip_file"))
    THEN ZipBundle(img, b, zf[1], used)
    ELSE PlainBundle(img, wf, b, used)

\* lines 184-198
Return ==
    /\ pc = "return"
    /\ log' = Append(log, "return")
    /\ result' = <<Bundle(params, image[1], image_bounds[1], world_file[1],
                          zip_file, assets_used[1])>>
    /\ pc' = "done"
    /\ UNCHANGED <<params, env, kwargs, image_data, assets_used,
                   image_bounds, image, step, world_file, zip_file, error>>

Next ==
    \/ Validate
    \/ ViewParams
    \/ Mosaic
    \/ MosaicFail
    \/ Bounds
    \/ Evaluate
    \/ PostProcess
    \/ PostProcessFail
    \/ Render
    \/ Enhance
    \/ WorldFile
    \/ Zip
    \/ AsArray
    \/ Return

Spec == Init /\ [][Next]_vars

\* ================================================================ claims
Occurrences(q, x) == Cardinality({i \in 1..Len(q) : q[i] = x})

Ran(stage) == \E i \in 1..Len(log) : log[i] = stage

Last(q) == q[Len(q)]

\* the request fields as the claims read them
FormatSupported ==
    /\ "image_format" \in DOMAIN params
    /\ params["image_format"] \in {"PNG", "JPEG"}

Flag(k) == k \in DOMAIN params /\ params[k] = TRUE

RequestedPasses ==
    IF Flag("enhance_image")
    THEN IF "enhance_passes" \in DOMAIN params
         THEN params["enhance_passes"] ELSE 1
    ELSE 0

\* the provenance of an image that left the Renderer and then went
\* through n enhancement passes
RenderedThen(n) == <<"render">> \o [i \in 1..n |-> "enhance"]

\* the encoded image a finished run ends with
FinalEncoded(n) ==
    [kind |-> "bytes", src |-> RenderedThen(n),
     width |-> env.width * Pow(2, n), height |-> env.height * Pow(2, n)]

Matches(img, expected) ==
    /\ img.kind = expected.kind
    /\ img.src = expected.src
    /\ img.width = expected.width
    /\ img.height = expected.height

\* C1: a request whose image_format is missing or not PNG/JPEG fails with
\* the format ValueError, and mosaic assembly is never invoked in that run
C1_FormatRejectedBeforeMosaic ==
    (~FormatSupported /\ pc # "start") =>
        /\ pc = "failed"
        /\ error = <<[type |-> "ValueError", stage |-> "validate"]>>
        /\ ~Ran("mosaic")
        /\ image_data = None
        /\ result = None

C1_Witness ==
    /\ pc = "failed"
    /\ "image_format" \in DOMAIN params
    /\ params["image_format"] = "GIF"
    /\ "assets" \in DOMAIN params

\* C2: a request with a supported format and none of assets, expression,
\* RGB-expression fails with the classified invalid-request error (the
\* ValueError the format check raises), before mosaic assembly and with no
\* output bundle
C2_MissingModeIsInvalidRequest ==
    (/\ FormatSupported
     /\ DOMAIN params \cap {"assets", "expression", "RGB-expression"} = {}
     /\ pc \notin {"start", "view"}) =>
        /\ pc = "failed"
        /\ error[1].type = "ValueError"
        /\ ~Ran("mosaic")
        /\ result = None

\* C3: a successful run invokes the Enhancer exactly enhance_passes times
\* (1 when absent) if enhance_image is set and never otherwise; the first
\* pass consumes the Renderer's output, each later pass the output of the
\* pass before it, and the returned image is the output of the last pass
C3_EnhancerPasses ==
    /\ (image # None /\ image[1].kind = "bytes") =>
           /\ image[1].src = RenderedThen(step)
           /\ (pc # "failed" => Occurrences(log, "enhance") = step)
    /\ pc = "done" =>
           /\ Occurrences(log, "enhance") = RequestedPasses
           /\ LET img == result[1].image
              IN  IF img.kind = "array"
                  THEN /\ img.of = RenderedThen(RequestedPasses)
                       /\ img.shape[2] = env.width * Pow(2, RequestedPasses)
                  ELSE Matches(img, FinalEncoded(RequestedPasses))

C3_Witness ==
    /\ pc = "done"
    /\ Flag("enhance_image")
    /\ "enhance_passes" \in DOMAIN params
    /\ params["enhance_passes"] = 2
    /\ Occurrences(log, "enhance") = 2

Reorderings(q) ==
    {[i \in 1..Len(q) |-> q[f[i]]] :
        f \in {g \in [1..Len(q) -> 1..Len(q)] :
                  \A i, j \in 1..Len(q) : g[i] = g[j] => i = j}}

Ascending(q) == \A i \in 1..(Len(q) - 1) : LexLeq(q[i], q[i + 1])

\* C4: in either zip_file branch the returned name is the identifiers
\* mosaic assembly returned, in ascending lexicographic order, joined with
\* ", "; every return order of the same identifiers gives the same name
C4_NameSortedJoined ==
    pc = "done" =>
        LET ids == [i \in 1..Len(env.used) |-> env.used[i].id]
            ordered == CHOOSE q \in Reorderings(ids) : Ascending(q)
        IN  /\ result[1].name = Join(<<44, 32>>, ordered)
            /\ \A q \in Reorderings(env.used) :
                   BundleName(q) = result[1].name

C4_Witness ==
    /\ pc = "done"
    /\ Flag("zip_file")
    /\ Len(env.used) = 2
    /\ env.used[1].id = <<98>>
    /\ env.used[2].id = <<97, 98>>

\* C5: with zip_file set, a successful run's archive has exactly the
\* members image.<ext>, image.<world-ext>, polygon.geojson and
\* image_metadata.geojson in that order (png/pgw, jpeg/jgw); the image
\* member is the final encoded image, also when image_as_array is set, and
\* the world-file member is the world file of that same image
C5_ArchiveMembers ==
    (pc = "done" /\ Flag("zip_file")) =>
        LET z == result[1].zip_file
            ext == IF params["image_format"] = "PNG"
                   THEN <<"png", "pgw">> ELSE <<"jpeg", "jgw">>
        IN  /\ [i \in 1..Len(z) |-> z[i].name] =
                   <<<<"image", ext[1]>>, <<"image", ext[2]>>,
                     <<"polygon", "geojson">>,
                     <<"image_metadata", "geojson">>>>
            /\ Matches(z[1].content, FinalEncoded(RequestedPasses))
            /\ z[1].content.format = params["image_format"]
            /\ z[2].content = world_file[1]
            /\ z[2].content[1].den = env.width * Pow(2, RequestedPasses)
            /\ z[2].content[4].den = env.height * Pow(2, RequestedPasses)

C5_Witness ==
    /\ pc = "done"
    /\ Flag("zip_file")
    /\ Flag("image_as_array")
    /\ step = 1
    /\ "expression" \in DOMAIN params

\* C6: for bounds [[south, west], [north, east]] with south # north and
\* west # east the world file has six lines: |west - east| / width > 0,
\* 0.0, 0.0, -|south - north| / height < 0, bounds[0][1], bounds[1][0],
\* with the width and height of the image after all enhancement passes
C6_WorldFileCoefficients ==
    world_file # None =>
        LET b == image_bounds[1]
            south == b[1][1]
            west == b[1][2]
            north == b[2][1]
            east == b[2][2]
            width == env.width * Pow(2, step)
            height == env.height * Pow(2, step)
            wf == world_file[1]
            Distance(x, y) == IF x < y THEN y - x ELSE x - y
        IN  (south # north /\ west # east) =>
                /\ Len(wf) = 6
                /\ wf[1] = [num |-> Distance(west, east), den |-> width]
                /\ wf[1].num > 0 /\ wf[1].den > 0
                /\ wf[2] = [num |-> 0, den |-> 1]
                /\ wf[3] = [num |-> 0, den |-> 1]
                /\ wf[4] = [num |-> 0 - Distance(south, north),
                            den |-> height]
                /\ wf[4].num < 0 /\ wf[4].den > 0
                /\ wf[5] = [num |-> west, den |-> 1]
                /\ wf[6] = [num |-> north, den |-> 1]

C6_Witness ==
    /\ world_file # None
    /\ step = 2
    /\ image_bounds[1][1][2] > image_bounds[1][2][2]
    /\ image_bounds[1][1][1] # image_bounds[1][2][1]

\* C7: the Band Expression Evaluator binds band i to the i-th identifier of
\* RGB-expression.assets and returns exactly 3 bands in expression order,
\* every NaN or infinite result replaced by 0, the validity mask that of
\* its input; it fails when the number of comma-separated expressions is
\* not 3 or an expression names an identifier outside RGB-expression.assets
C7_EvaluatorThreeSanitizedBands ==
    (Ran("rgb") /\ Last(log) = "rgb") =>
        LET rgb == params["RGB-expression"]
            expressions == Split(rgb.expression, ",")
            unknown == \E i \in 1..Len(expressions) :
                           \E j \in 1..Len(expressions[i]) :
                               /\ expressions[i][j] \notin
                                      {" ", "+", "-", "*", "/"}
                               /\ \A m \in 1..Len(rgb.assets) :
                                      rgb.assets[m] # expressions[i][j]
        IN  IF Len(expressions) # 3 \/ unknown
            THEN pc = "failed"
            ELSE pc = "post" =>
                     /\ Len(image_data[1].data) = 3
                     /\ image_data[1].mask = env.mask
                     /\ \A i \in 1..3 :
                            LET raw == evaluate(Strip(expressions[i]),
                                                Context(rgb.assets,
                                                        [m \in 1..2 |->
                                                           Num(env.pix[m])]))
                            IN  image_data[1].data[i] =
                                    IF raw.k \in {"nan", "inf"}
                                    THEN Num(0) ELSE raw

\* C8: a successful run returns one of two shapes chosen by zip_file alone:
\* {image, bounds, zip_file, name} or {image, projection_file, bounds,
\* assets_used, name}; image_as_array changes the image field only, into
\* the decoded pixel array
C8_BundleShapes ==
    pc = "done" =>
        LET r == result[1]
        IN  /\ DOMAIN r = IF Flag("zip_file")
                          THEN {"image", "bounds", "zip_file", "name"}
                          ELSE {"image", "projection_file", "bounds",
                                "assets_used", "name"}
            /\ r.image.kind = IF Flag("image_as_array")
                              THEN "array" ELSE "bytes"
            /\ r.image.kind = "array" =>
                   /\ r.image.of = RenderedThen(step)
                   /\ r.image.shape[1] = env.height * Pow(2, step)
                   /\ r.image.shape[2] = env.width * Pow(2, step)
            /\ r.bounds = image_bounds[1]
            /\ Flag("zip_file") =>
                   /\ r.zip_file = zip_file[1]
                   /\ r.zip_file[1].content.kind = "bytes"
            /\ ~Flag("zip_file") =>
                   /\ r.projection_file = world_file[1]
                   /\ r.assets_used = env.used

C8_Witness ==
    /\ pc = "done"
    /\ Flag("zip_file")
    /\ Flag("image_as_array")
    /\ "assets" \in DOMAIN params

\* C9: one band-selection mode governs every stage: the mode whose
\* arguments go to mosaic assembly is the one that decides whether the
\* Band Expression Evaluator runs (RGB-expression only) and which
\* Post-Processor and Renderer branch is taken (natural-colour without
\* colormap for assets and RGB-expression; colormap with range defaults
\* -1 / 1 for expression), also for requests with several mode keys
C9_SingleModeGoverns ==
    LET mode == view_mode(params)
        natural == mode \in {"assets", "RGB-expression"}
    IN  /\ Ran("rgb") => mode = "RGB-expression"
        /\ (Ran("post") /\ mode = "RGB-expression") => Ran("rgb")
        /\ (image # None /\ image[1].kind = "processed") =>
               /\ image[1].branch = "natural" <=> natural
               /\ image[1].branch = "single" <=> mode = "expression"
        /\ (image # None /\ image[1].kind = "bytes") =>
               (image[1].colormap = None <=> natural)

Rank == [validate |-> 0, view |-> 1, mosaic |-> 2, bounds |-> 3, rgb |-> 4,
         post |-> 5, render |-> 6, enhance |-> 7, world |-> 8, zip |-> 9,
         array |-> 10, return |-> 11]

\* C10: the stages run in the order mosaic assembly, Bounds Reprojector,
\* [Band Expression Evaluator], Post-Processor, Renderer, [Enhancer x N],
\* World-File Generator, [Archive Packager], each at most once except the
\* Enhancer; the bounds are those of the composite mosaic assembly
\* returned; a failure ends the run at the failing stage with no bundle
C10_StageOrder ==
    /\ \A i \in 1..(Len(log) - 1) :
           \/ Rank[log[i]] < Rank[log[i + 1]]
           \/ log[i] = "enhance" /\ log[i + 1] = "enhance"
    /\ image_bounds # None =>
           image_bounds[1] =
               <<<<Round(env.bounds[2], 10), Round(env.bounds[1], 10)>>,
                 <<Round(env.bounds[4], 10), Round(env.bounds[3], 10)>>>>
    /\ error # None <=> pc = "failed"
    /\ pc = "failed" => result = None /\ Last(log) = error[1].stage
    /\ result # None <=> pc = "done"
    /\ pc = "done" =>
           /\ \A s \in {"mosaic", "bounds", "post", "render", "world"} :
                  Occurrences(log, s) = 1
           /\ Occurrences(log, "rgb") <= 1
           /\ Occurrences(log, "zip") <= 1

C10_Witness ==
    /\ pc = "failed"
    /\ error[1].stage = "enhance"
    /\ Ran("rgb")
    /\ Len(log) > 7

====
